---- MODULE Spec2Model ----
(***************************************************************************)
(* Student Management Dashboard: the student store (StudentContext), its   *)
(* reducer, the helper functions of StudentProvider and the derived        *)
(* projection getFilteredStudents; the useDebounce hook with the timers it *)
(* arms; the validation functions validateStudent and                      *)
(* validateStudentOnServer; the submission workflow of StudentForm and     *)
(* Dashboard with the view switch of App; the useCourses hook; the search  *)
(* pipeline of SearchAndFilter.                                            *)
(*                                                                         *)
(* Strings are sequences of one-character strings, so that toLowerCase,    *)
(* includes, trim, parseInt and the email pattern are computed character   *)
(* by character.  A Date is the integer number of clock ticks              *)
(* (milliseconds) it holds.                                                *)
(***************************************************************************)
EXTENDS Integers, Sequences, FiniteSets, TLC

\* ------------------------------------------------------------------ bounds
\* number of ids crypto.randomUUID() hands out in a run (so: of addStudent calls)
MaxIds == 2
\* largest reading of the clock; the clock stands still once it is reached
MaxTime == 1

Ids == 1..MaxIds
Times == 0..MaxTime

\* ----------------------------------------------------------------- strings
Str_empty == << >>
Str_AN == <<"A", "N">>
Str_sp_AN_sp == <<" ", "A", "N", " ">>

Name_Bo == <<"B", "o">>
Name_J_An_L == <<"J", " ", "A", "n", " ", "L">>
Email_AN == <<"A", "N", "@", "x", ".", "c">>
Email_j == <<"j", "@", "y", ".", "c">>

\* String.prototype.toLowerCase on one character
LowerChar(c) ==
  CASE c = "A" -> "a"
    [] c = "B" -> "b"
    [] c = "J" -> "j"
    [] c = "L" -> "l"
    [] c = "N" -> "n"
    [] c = "E" -> "e"
    [] c = "S" -> "s"
    [] c = "T" -> "t"
    [] OTHER -> c

\* String.prototype.toLowerCase
toLowerCase(s) == [i \in 1..Len(s) |-> LowerChar(s[i])]

\* String.prototype.includes: t occurs in s at some position
includes(s, t) ==
  \E i \in 0..(Len(s) - Len(t)) : SubSeq(s, i + 1, i + Len(t)) = t

IsSpace(c) == c = " "

RECURSIVE trimStart(_)
trimStart(s) ==
  IF s # << >> /\ IsSpace(Head(s)) THEN trimStart(Tail(s)) ELSE s

RECURSIVE trimEnd(_)
trimEnd(s) ==
  IF s # << >> /\ IsSpace(s[Len(s)]) THEN trimEnd(SubSeq(s, 1, Len(s) - 1)) ELSE s

\* String.prototype.trim
trim(s) == trimEnd(trimStart(s))

\* ------------------------------------------------------------------ inputs
\* selectedCourseFilter: number | null
Null == -1
CourseIds == {1, 2}
Filters == CourseIds \cup {Null}

\* the payloads the callers pass to addStudent (Omit<Student, id|createdAt|updatedAt>)
Drafts ==
  { [name |-> Name_Bo, email |-> Email_AN, courseId |-> 1, profileImage |-> "p1"],
    [name |-> Name_J_An_L, email |-> Email_j, courseId |-> 2, profileImage |-> ""] }

\* the values typed into the search box
Terms == {Str_empty, Str_AN, Str_sp_AN_sp}

\* interface Student
MkStudent(id, d, c, u) ==
  [id |-> id, name |-> d.name, email |-> d.email, courseId |-> d.courseId,
   profileImage |-> d.profileImage, createdAt |-> c, updatedAt |-> u]

\* --------------------------------------------------------------- the state
VARIABLES
  state,   \* StudentState held by useReducer: students, searchTerm, selectedCourseFilter
  now,     \* the last reading of the clock behind new Date()
  issued,  \* the ids crypto.randomUUID() has returned, in order
  last     \* the helper function called last, with the id it was about

vars == <<state, now, issued, last>>

\* one instance of useDebounce and the timers of the event loop it has armed
VARIABLES
  value,           \* the value the owning component passes in on its last render
  delay,           \* the delay it passes in, in clock ticks
  debouncedValue,  \* the state cell the hook returns
  handler,         \* the timer handle the last effect run closed over
  timers,          \* the armed timers: handle, the value closed over, due time
  mounted,         \* the owning component is mounted
  clock,           \* the time of the event loop, in ticks
  hist             \* history of the instance: the step taken last (op); since the
                   \* input last changed with no timer armed: the number of input
                   \* changes (burst), of callbacks run (sets), of changes of
                   \* debouncedValue (flips), the debouncedValue of that moment
                   \* (held); the times of the last input change and of the last
                   \* callback; whether each of these input changes came less
                   \* than delay after the one before (tight); whether the
                   \* unmount found a timer armed (cut)

hookVars == <<value, delay, debouncedValue, handler, timers, mounted, clock, hist>>

\* one call of a validation function
VARIABLES
  arg,  \* the argument of the call
  ret   \* the function called and what it returned

callVars == <<arg, ret>>

\* Dashboard's form state, the StudentForm it shows, and the remote
\* validation that form has started
VARIABLES
  showForm,          \* Dashboard: the create form is shown
  editingStudent,    \* Dashboard: << >> or <<the Student the edit form was opened on>>
  formData,          \* StudentForm: the four input strings
  validationErrors,  \* StudentForm: field |-> message
  isSubmitting,      \* StudentForm
  serverError,       \* StudentForm: "" or the message shown
  remote,            \* the handleSubmit runs awaiting validateStudentOnServer,
                     \* oldest first; live: the form of the run is mounted
  serverCalls,       \* number of calls of validateStudentOnServer so far
  sub,               \* history: the form step taken last (ev), the number of
                     \* handleSubmit calls (n), the number of settled remote
                     \* validations (settled), a rejection left handleSubmit
                     \* (escaped)
  currentView        \* App: "dashboard" or "guide"

formVars == <<showForm, editingStudent, formData, validationErrors, isSubmitting,
              serverError, remote, serverCalls, sub, currentView>>

\* one instance of useCourses
VARIABLES
  apiState,          \* data, loading, error
  fetches            \* the fetchCourses calls awaited by loadCourses, oldest
                     \* first (pending), the number of fetchCourses calls so
                     \* far (calls), the hook is mounted (mounted), history:
                     \* the step taken last (ev)

courseVars == <<apiState, fetches>>

\* SearchAndFilter wired to the store by Dashboard
VARIABLES
  sync               \* the effect that hands the debounced term to the store:
                     \* the dependencies of its last run, << >> before the
                     \* first (deps), the number of renders of StudentProvider,
                     \* which names the setSearchTerm function of the last
                     \* render (fn), the number of runs of the effect (n),
                     \* history: the X button was the last input event
                     \* (cleared), the terms the input has held (seen)

searchVars == <<sync>>

\* --------------------------------------------------------------- the reducer
IdsOf(students) == {students[i].id : i \in 1..Len(students)}

\* case 'ADD_STUDENT'
\* a store that refuses a second record with an email it already holds
reduceADD_STUDENT_uniqueEmail(s, payload) ==
  IF \E i \in DOMAIN s.students : s.students[i].email = payload.email
  THEN s
  ELSE [s EXCEPT !.students = Append(s.students, payload)]

reduceADD_STUDENT(s, payload) ==
  [s EXCEPT !.students = Append(s.students, payload)]

\* an UPDATE_STUDENT that appends the payload when no record has its id
reduceUPDATE_STUDENT_upsert(s, payload) ==
  IF payload.id \in IdsOf(s.students)
  THEN [s EXCEPT !.students =
          [i \in 1..Len(s.students) |->
             IF s.students[i].id = payload.id THEN payload ELSE s.students[i]]]
  ELSE [s EXCEPT !.students = Append(s.students, payload)]

\* an UPDATE_STUDENT that drops the old record and appends the payload
reduceUPDATE_STUDENT_moveToEnd(s, payload) ==
  IF payload.id \in IdsOf(s.students)
  THEN [s EXCEPT !.students =
          Append(SelectSeq(s.students, LAMBDA st : st.id # payload.id), payload)]
  ELSE s

\* a reducer case that appends the payload instead of replacing a record
reduceUPDATE_STUDENT_appends(s, payload) ==
  [s EXCEPT !.students = Append(@, payload)]

\* case 'UPDATE_STUDENT'
reduceUPDATE_STUDENT(s, payload) ==
  [s EXCEPT !.students =
     [i \in 1..Len(s.students) |->
        IF s.students[i].id = payload.id THEN payload ELSE s.students[i]]]

\* a DELETE_STUDENT that removes the record at the head of the list instead
reduceDELETE_STUDENT_head(s, id) ==
  IF id \in IdsOf(s.students)
  THEN [s EXCEPT !.students = Tail(s.students)]
  ELSE s

\* case 'DELETE_STUDENT'
reduceDELETE_STUDENT(s, id) ==
  [s EXCEPT !.students = SelectSeq(s.students, LAMBDA st : st.id # id)]

\* a SET_SEARCH_TERM that also clears the course filter
reduceSET_SEARCH_TERM_resets(s, term) ==
  [s EXCEPT !.searchTerm = term, !.selectedCourseFilter = Null]

\* case 'SET_SEARCH_TERM'
reduceSET_SEARCH_TERM(s, term) ==
  [s EXCEPT !.searchTerm = term]

\* case 'SET_COURSE_FILTER'
reduceSET_COURSE_FILTER(s, courseId) ==
  [s EXCEPT !.selectedCourseFilter = courseId]

\* case 'LOAD_STUDENTS'
reduceLOAD_STUDENTS(s, students) ==
  [s EXCEPT !.students = students]

studentReducer(s, action) ==
  CASE action.type = "ADD_STUDENT" -> reduceADD_STUDENT(s, action.payload)
    [] action.type = "UPDATE_STUDENT" -> reduceUPDATE_STUDENT(s, action.payload)
    [] action.type = "DELETE_STUDENT" -> reduceDELETE_STUDENT(s, action.payload)
    [] action.type = "SET_SEARCH_TERM" -> reduceSET_SEARCH_TERM(s, action.payload)
    [] action.type = "SET_COURSE_FILTER" -> reduceSET_COURSE_FILTER(s, action.payload)
    [] action.type = "LOAD_STUDENTS" -> reduceLOAD_STUDENTS(s, action.payload)
    [] OTHER -> s

initialState ==
  [students |-> << >>, searchTerm |-> Str_empty, selectedCourseFilter |-> Null]

\* ------------------------------------------------------------ the projection
matchesSearch(student, term) ==
  \/ includes(toLowerCase(student.name), toLowerCase(term))
  \/ includes(toLowerCase(student.email), toLowerCase(term))

matchesCourse(student, filter) ==
  filter = Null \/ student.courseId = filter

\* a projection that keeps a record matching either predicate
getFilteredStudentsEither(s) ==
  SelectSeq(s.students,
            LAMBDA st : matchesSearch(st, s.searchTerm)
                        \/ matchesCourse(st, s.selectedCourseFilter))

\* a projection that trims the search term before matching
getFilteredStudentsTrimmed(s) ==
  SelectSeq(s.students,
            LAMBDA st : matchesSearch(st, trim(s.searchTerm))
                        /\ matchesCourse(st, s.selectedCourseFilter))

\* getFilteredStudents, as a function of the state it closes over
getFilteredStudentsIn(s) ==
  SelectSeq(s.students,
            LAMBDA st : matchesSearch(st, s.searchTerm)
                        /\ matchesCourse(st, s.selectedCourseFilter))

getFilteredStudents == getFilteredStudentsIn(state)

\* ----------------------------------------------------------------- actions
\* the store when StudentProvider has just been mounted
StoreInit ==
  /\ state = initialState
  /\ now = 0
  /\ issued = << >>
  /\ last = [op |-> "init", id |-> 0, hit |-> FALSE]

\* the readings a new Date() can give after the clock read t
Readings(t) == {u \in Times : t <= u /\ u <= t + 1}

Range(f) == {f[i] : i \in DOMAIN f}

\* an id generator that can return an id it returned before
randomUUIDReuse(given) == Ids

\* crypto.randomUUID(): an id that was not returned before.  Ids are opaque
\* (the code only compares them with ===), so the least unused id stands for
\* whichever fresh value the generator returns; none is left after MaxIds calls.
randomUUID(given) == {id \in Ids : id = Len(given) + 1}

\* the state after addStudent(studentData) in state s, when randomUUID
\* returns id and the two new Date() read c and u
addStudentIn(s, studentData, id, c, u) ==
  studentReducer(s, [type |-> "ADD_STUDENT",
                     payload |-> MkStudent(id, studentData, c, u)])

\* an updateStudent that stamps createdAt as well
updateStudentInStampsBoth(s, student, u) ==
  studentReducer(s, [type |-> "UPDATE_STUDENT",
                     payload |-> [student EXCEPT !.updatedAt = u,
                                                 !.createdAt = u]])

\* the state after updateStudent(student) in state s, when new Date() reads u
updateStudentIn(s, student, u) ==
  studentReducer(s, [type |-> "UPDATE_STUDENT",
                     payload |-> [student EXCEPT !.updatedAt = u]])

deleteStudentIn(s, id) ==
  studentReducer(s, [type |-> "DELETE_STUDENT", payload |-> id])

setSearchTermIn(s, term) ==
  studentReducer(s, [type |-> "SET_SEARCH_TERM", payload |-> term])

setCourseFilterIn(s, courseId) ==
  studentReducer(s, [type |-> "SET_COURSE_FILTER", payload |-> courseId])

addStudent(studentData) ==
  /\ \E id \in randomUUID(issued) :
       \E c \in Readings(now) :
         \E u \in Readings(c) :
           /\ state' = addStudentIn(state, studentData, id, c, u)
           /\ now' = u
           /\ issued' = Append(issued, id)
           /\ last' = [op |-> "addStudent", id |-> id, hit |-> FALSE]

updateStudent(student) ==
  \E u \in Readings(now) :
    /\ state' = updateStudentIn(state, student, u)
    /\ now' = u
    /\ last' = [op |-> "updateStudent", id |-> student.id,
                hit |-> student.id \in IdsOf(state.students)]
    /\ UNCHANGED issued

deleteStudent(id) ==
  /\ state' = deleteStudentIn(state, id)
  /\ last' = [op |-> "deleteStudent", id |-> id,
              hit |-> id \in IdsOf(state.students)]
  /\ UNCHANGED <<now, issued>>

setSearchTerm(term) ==
  /\ state' = setSearchTermIn(state, term)
  /\ last' = [op |-> "setSearchTerm", id |-> 0, hit |-> FALSE]
  /\ UNCHANGED <<now, issued>>

setCourseFilter(courseId) ==
  /\ state' = setCourseFilterIn(state, courseId)
  /\ last' = [op |-> "setCourseFilter", id |-> 0, hit |-> FALSE]
  /\ UNCHANGED <<now, issued>>

\* the Student values a caller can pass to updateStudent; its updatedAt is
\* overwritten by the call
Payloads == {MkStudent(id, d, c, 0) : id \in Ids, d \in Drafts, c \in Times}

\* contextValue.dispatch: any consumer of useStudents can dispatch an action
\* of StudentAction itself
dispatch(action) ==
  /\ state' = studentReducer(state, action)
  /\ last' = [op |-> "dispatch", id |-> 0, hit |-> FALSE]
  /\ UNCHANGED <<now, issued>>

\* the LOAD_STUDENTS actions dispatched: payload: Student[]
LoadActions ==
  {[type |-> "LOAD_STUDENTS", payload |-> students] :
     students \in {<< >>} \cup {<<p>> : p \in Payloads}}

\* ------------------------------------------- the transitions as functions
\* One transition with one payload, applied to the current state in two
\* StudentProviders that are in that state: ret.out.a is the state of the
\* first after it, ret.out.b that of the second.  The second has its own
\* id generator and reads its own clock.

\* the ids the generator of another provider in state s can return
otherUUID(s) == Ids \ IdsOf(s.students)

bothAddStudent(studentData) ==
  /\ \E id \in randomUUID(issued), id2 \in otherUUID(state) :
       \E c \in Readings(now), c2 \in Times :
         \E u \in Readings(c), u2 \in Readings(c2) :
           ret' = [fn |-> "addStudent",
                   out |-> [a |-> addStudentIn(state, studentData, id, c, u),
                            b |-> addStudentIn(state, studentData, id2, c2, u2)]]
  /\ arg' = studentData

bothUpdateStudent(student) ==
  /\ \E u \in Readings(now), u2 \in Times :
       ret' = [fn |-> "updateStudent",
               out |-> [a |-> updateStudentIn(state, student, u),
                        b |-> updateStudentIn(state, student, u2)]]
  /\ arg' = student

bothDeleteStudent(id) ==
  /\ ret' = [fn |-> "deleteStudent",
             out |-> [a |-> deleteStudentIn(state, id),
                      b |-> deleteStudentIn(state, id)]]
  /\ arg' = id

bothSetSearchTerm(term) ==
  /\ ret' = [fn |-> "setSearchTerm",
             out |-> [a |-> setSearchTermIn(state, term),
                      b |-> setSearchTermIn(state, term)]]
  /\ arg' = term

bothSetCourseFilter(courseId) ==
  /\ ret' = [fn |-> "setCourseFilter",
             out |-> [a |-> setCourseFilterIn(state, courseId),
                      b |-> setCourseFilterIn(state, courseId)]]
  /\ arg' = courseId

\* updateStudent(student) twice in a row in one provider: ret.out.a is the
\* state after the first call, ret.out.b the state after the second
twiceUpdateStudent(student) ==
  /\ \E u \in Readings(now) :
       \E u2 \in Readings(u) :
         ret' = [fn |-> "updateStudentTwice",
                 out |-> [a |-> updateStudentIn(state, student, u),
                          b |-> updateStudentIn(
                                  updateStudentIn(state, student, u), student, u2)]]
  /\ arg' = student

\* -------------------------------------------------------------- useDebounce
\* Time is counted in ticks of 50 ms.  SearchAndFilter calls
\* useDebounce(localSearchTerm, 300): 300 ms are 6 ticks.
DelayTicks == 6
\* the delays an instance is created with
Delays == {0, DelayTicks}
\* the clock stands still once it reads MaxClock
MaxClock == 9
\* number of times the input value changes in a run
MaxChanges == 3

Str_a == <<"a">>
Str_ab == <<"a", "b">>
Str_abc == <<"a", "b", "c">>
\* the values the owning component passes in
DValues == {Str_empty, Str_a, Str_ab, Str_abc}

\* a setTimeout that ignores its delay argument
setTimeoutAtOnce(ts, h, v, t, d) ==
  ts \cup {[handle |-> h, value |-> v, due |-> t]}

\* setTimeout(() => setDebouncedValue(v), d) called at time t, returning
\* handle h: the callback is due d ticks later and runs in a later turn of the
\* event loop, never inside the call
setTimeout(ts, h, v, t, d) ==
  ts \cup {[handle |-> h, value |-> v, due |-> t + d]}

\* clearTimeout(h)
clearTimeout(ts, h) == {t \in ts : t.handle # h}

\* an effect cleanup that leaves the timer armed
effectCleanupKeeps(ts, h) == ts

\* the cleanup function the effect returns
effectCleanup(ts, h) == clearTimeout(ts, h)

\* the first render of the owner with value v and delay d: useState(v), then
\* the effect arms the first timer
HookInit(v, d) ==
  /\ value = v
  /\ delay = d
  /\ debouncedValue = v
  /\ handler = 1
  /\ timers = setTimeout({}, 1, v, 0, d)
  /\ mounted = TRUE
  /\ clock = 0
  /\ hist = [op |-> "mount", burst |-> 0, flips |-> 0, sets |-> 0,
             lastChangeAt |-> 0, firedAt |-> Null, held |-> v, tight |-> TRUE,
             cut |-> FALSE]

\* a render with a new value that sets debouncedValue at once when delay is 0
renderSyncAtZero(v) ==
  /\ mounted
  /\ v # value
  /\ handler <= MaxChanges
  /\ value' = v
  /\ handler' = handler + 1
  /\ timers' = setTimeout(effectCleanup(timers, handler), handler + 1, v, clock, delay)
  /\ debouncedValue' = IF delay = 0 THEN v ELSE debouncedValue
  /\ hist' = [hist EXCEPT !.op = "render",
                          !.burst = IF timers = {} THEN 1 ELSE @ + 1,
                          !.flips = IF timers = {} THEN 0 ELSE @,
                          !.sets = IF timers = {} THEN 0 ELSE @,
                          !.held = IF timers = {} THEN debouncedValue ELSE @,
                          !.tight = IF timers = {} THEN TRUE
                                    ELSE @ /\ clock - hist.lastChangeAt < delay,
                          !.lastChangeAt = clock]
  /\ UNCHANGED <<delay, mounted, clock>>

\* the owner renders with a new value: the dependencies [value, delay] have
\* changed, so the cleanup of the previous effect runs, then the effect
render(v) ==
  /\ mounted
  /\ v # value
  /\ handler <= MaxChanges
  /\ value' = v
  /\ handler' = handler + 1
  /\ timers' = setTimeout(effectCleanup(timers, handler), handler + 1, v, clock, delay)
  /\ hist' = [hist EXCEPT !.op = "render",
                          !.burst = IF timers = {} THEN 1 ELSE @ + 1,
                          !.flips = IF timers = {} THEN 0 ELSE @,
                          !.sets = IF timers = {} THEN 0 ELSE @,
                          !.held = IF timers = {} THEN debouncedValue ELSE @,
                          !.tight = IF timers = {} THEN TRUE
                                    ELSE @ /\ clock - hist.lastChangeAt < delay,
                          !.lastChangeAt = clock]
  /\ UNCHANGED <<delay, debouncedValue, mounted, clock>>

\* a timer turn of the event loop: the callback of a timer that is due runs
\* setDebouncedValue with the value it closed over (a state update of an
\* unmounted component is dropped)
timerFires(t) ==
  /\ t \in timers
  /\ t.due <= clock
  /\ timers' = timers \ {t}
  /\ debouncedValue' = IF mounted THEN t.value ELSE debouncedValue
  /\ hist' = [hist EXCEPT !.op = "fire",
                          !.sets = @ + 1,
                          !.flips = IF mounted /\ t.value # debouncedValue
                                    THEN @ + 1 ELSE @,
                          !.firedAt = clock]
  /\ UNCHANGED <<value, delay, handler, mounted, clock>>

\* an unmount that does not run the cleanup
unmountNoCleanup ==
  /\ mounted
  /\ mounted' = FALSE
  /\ hist' = [hist EXCEPT !.op = "unmount", !.cut = (timers # {})]
  /\ UNCHANGED <<value, delay, debouncedValue, handler, timers, clock>>

\* the owner is unmounted: the cleanup of the last effect runs
unmount ==
  /\ mounted
  /\ mounted' = FALSE
  /\ timers' = effectCleanup(timers, handler)
  /\ hist' = [hist EXCEPT !.op = "unmount", !.cut = (timers # {})]
  /\ UNCHANGED <<value, delay, debouncedValue, handler, clock>>

\* time passes; a callback that is due may run late
tick ==
  /\ clock < MaxClock
  /\ clock' = clock + 1
  /\ hist' = [hist EXCEPT !.op = "tick"]
  /\ UNCHANGED <<value, delay, debouncedValue, handler, timers, mounted>>

\* --------------------------------------------------------------- validation
\* emailRegex = /^[^\s@]+@[^\s@]+\.[^\s@]+$/ : a run of [^\s@]
IsPlainRun(s) ==
  /\ s # << >>
  /\ \A i \in 1..Len(s) : ~IsSpace(s[i]) /\ s[i] # "@"

\* emailRegex.test(s): s splits into run @ run . run
emailRegexTest(s) ==
  \E a \in 1..Len(s) : \E d \in 1..Len(s) :
    /\ a < d
    /\ s[a] = "@"
    /\ s[d] = "."
    /\ IsPlainRun(SubSeq(s, 1, a - 1))
    /\ IsPlainRun(SubSeq(s, a + 1, d - 1))
    /\ IsPlainRun(SubSeq(s, d + 1, Len(s)))

isValidEmail(email) == emailRegexTest(trim(email))

\* the errors object under construction: e with errors[field] = message
WithError(e, field, message) ==
  [f \in (DOMAIN e) \cup {field} |-> IF f = field THEN message ELSE e[f]]

NoErrors == [f \in {} |-> ""]

\* a validateStudent that refuses a name of 50 characters
validateStudentUpTo49(data) ==
  LET e1 == IF trim(data.name) = << >>
            THEN WithError(NoErrors, "name", "Name is required")
            ELSE IF Len(trim(data.name)) < 2
            THEN WithError(NoErrors, "name", "Name must be at least 2 characters")
            ELSE IF Len(trim(data.name)) >= 50
            THEN WithError(NoErrors, "name", "Name must be less than 50 characters")
            ELSE NoErrors
      e2 == IF trim(data.email) = << >>
            THEN WithError(e1, "email", "Email is required")
            ELSE IF ~isValidEmail(data.email)
            THEN WithError(e1, "email", "Please enter a valid email address")
            ELSE e1
  IN IF data.courseId = << >> \/ data.courseId = <<"0">>
     THEN WithError(e2, "courseId", "Please select a course")
     ELSE e2

validateStudent(data) ==
  LET e1 == IF trim(data.name) = << >>
            THEN WithError(NoErrors, "name", "Name is required")
            ELSE IF Len(trim(data.name)) < 2
            THEN WithError(NoErrors, "name", "Name must be at least 2 characters")
            ELSE IF Len(trim(data.name)) > 50
            THEN WithError(NoErrors, "name", "Name must be less than 50 characters")
            ELSE NoErrors
      e2 == IF trim(data.email) = << >>
            THEN WithError(e1, "email", "Email is required")
            ELSE IF ~isValidEmail(data.email)
            THEN WithError(e1, "email", "Please enter a valid email address")
            ELSE e1
  IN IF data.courseId = << >> \/ data.courseId = <<"0">>
     THEN WithError(e2, "courseId", "Please select a course")
     ELSE e2

\* Object.keys(errors).length > 0
hasValidationErrors(errors) == DOMAIN errors # {}

Email_test == <<"t","e","s","t","@","e","x","a","m","p","l","e",".","c","o","m">>
Email_admin == <<"a","d","m","i","n","@","t","e","s","t",".","c","o","m">>
Email_TEST == <<"T","E","S","T","@","E","x","a","m","p","l","e",".","c","o","m">>

\* const existingEmails
existingEmails == {Email_test, Email_admin}

\* a remote check that compares the email as it was typed
serverVerdictCaseSensitive(studentData) ==
  IF studentData.email \in existingEmails THEN "rejected" ELSE "resolved"

\* how the promise of validateStudentOnServer(studentData) settles
serverVerdict(studentData) ==
  IF toLowerCase(studentData.email) \in existingEmails
  THEN "rejected" ELSE "resolved"

\* the names, emails and course choices a form can hold
NameOfLen(n) == [i \in 1..n |-> "x"]
FormNames ==
  {Str_empty, <<" ">>, <<"J">>, <<" ", "J", " ">>, Name_Bo, <<" ", "B", "o", " ">>,
   NameOfLen(50), <<" ">> \o NameOfLen(50) \o <<" ">>, NameOfLen(51)}
FormEmails ==
  {Str_empty, <<" ">>, Email_AN, <<" ">> \o Email_AN \o <<" ">>,
   Email_test, Email_TEST, Email_admin, <<" ">> \o Email_admin,
   <<"a", "@", "b">>, <<"a", " ", "b", "@", "x", ".", "c">>,
   <<"a", "@", "@", "x", ".", "c">>, <<"@", "x", ".", "c">>,
   <<"a", "@", "x", ".">>, <<"a", "@", ".", "c">>,
   <<"a", "@", "x", ".", ".", "c">>, <<"a", ".", "b", "c">>}
FormCourseIds == {Str_empty, <<"0">>, <<"1">>, <<"2">>, <<"0", "1">>}
FormDatas ==
  {[name |-> n, email |-> e, courseId |-> c, profileImage |-> ""] :
     n \in FormNames, e \in FormEmails, c \in FormCourseIds}
\* the payloads a caller can pass to validateStudentOnServer
ServerArgs ==
  {[name |-> n, email |-> e, courseId |-> c, profileImage |-> ""] :
     n \in {Name_Bo, Name_J_An_L}, e \in FormEmails, c \in CourseIds}

CallInit ==
  /\ arg = [name |-> Str_empty, email |-> Str_empty, courseId |-> Str_empty,
            profileImage |-> ""]
  /\ ret = [fn |-> "none", out |-> "none"]

callValidateStudent(data) ==
  /\ arg' = data
  /\ ret' = [fn |-> "validateStudent", out |-> validateStudent(data)]

callValidateStudentOnServer(studentData) ==
  /\ arg' = studentData
  /\ ret' = [fn |-> "validateStudentOnServer", out |-> serverVerdict(studentData)]

\* ------------------------------------------------- StudentForm and Dashboard
\* number of handleSubmit calls in a run
MaxSubmits == 3

\* what parseInt returns for a string that does not start with a number
NaN == -2

DigitChars == <<"0", "1", "2", "3", "4", "5", "6", "7", "8", "9">>
IsDigit(c) == \E i \in 1..10 : DigitChars[i] = c
DigitValue(c) == (CHOOSE i \in 1..10 : DigitChars[i] = c) - 1

RECURSIVE parseDigits(_, _)
parseDigits(s, acc) ==
  IF s # << >> /\ IsDigit(Head(s))
  THEN parseDigits(Tail(s), 10 * acc + DigitValue(Head(s)))
  ELSE acc

\* parseInt on an unsigned string: leading whitespace is skipped, the leading
\* digits are read, anything after them is ignored
parseInt(s) ==
  LET t == trimStart(s)
  IN IF t # << >> /\ IsDigit(Head(t)) THEN parseDigits(t, 0) ELSE NaN

\* Number.prototype.toString on a non-negative integer
RECURSIVE numberToString(_)
numberToString(n) ==
  IF n < 10 THEN <<DigitChars[n + 1]>>
  ELSE numberToString(n \div 10) \o <<DigitChars[(n % 10) + 1]>>

\* the images getRandomProfileImage chooses from
ProfileImages == {"pexels1", "pexels2"}

\* the values typed or chosen in the inputs of the form
InputValues(field) ==
  CASE field = "name" -> {Str_empty, <<" ", "B", "o", " ">>}
    [] field = "email" -> {Email_AN, Email_TEST, <<"a", "@", "b">>}
    [] field = "courseId" -> {Str_empty, <<"1">>}

\* useState initial values of StudentForm without a student
emptyForm ==
  [name |-> Str_empty, email |-> Str_empty, courseId |-> Str_empty,
   profileImage |-> ""]

\* useState initial values of StudentForm opened on a student
formOf(student) ==
  [name |-> student.name, email |-> student.email,
   courseId |-> numberToString(student.courseId),
   profileImage |-> student.profileImage]

\* const isEditing = !!student
isEditing == editingStudent # << >>

formShown == showForm \/ editingStudent # << >>

FormInit ==
  /\ showForm = FALSE
  /\ editingStudent = << >>
  /\ formData = emptyForm
  /\ validationErrors = NoErrors
  /\ isSubmitting = FALSE
  /\ serverError = ""
  /\ remote = << >>
  /\ serverCalls = 0
  /\ sub = [ev |-> "none", n |-> 0, settled |-> 0, escaped |-> FALSE]
  /\ currentView = "dashboard"

\* a StudentForm is mounted with the given input strings
mountForm(fd) ==
  /\ formData' = fd
  /\ validationErrors' = NoErrors
  /\ isSubmitting' = FALSE
  /\ serverError' = ""

\* the Add Student button: setShowForm(true).  The form is a modal overlay,
\* so the button is out of reach while a form is shown.
openCreateForm ==
  /\ currentView = "dashboard"
  /\ ~formShown
  /\ showForm' = TRUE
  /\ mountForm(emptyForm)
  /\ sub' = [sub EXCEPT !.ev = "open"]
  /\ UNCHANGED <<editingStudent, remote, serverCalls>>

handleEditStudent(student) ==
  /\ currentView = "dashboard"
  /\ ~formShown
  /\ editingStudent' = <<student>>
  /\ mountForm(formOf(student))
  /\ sub' = [sub EXCEPT !.ev = "edit"]
  /\ UNCHANGED <<showForm, remote, serverCalls>>

\* the inputs are disabled while isSubmitting
handleInputChange(field, v) ==
  /\ formShown
  /\ ~isSubmitting
  /\ formData' = [formData EXCEPT ![field] = v]
  /\ validationErrors' =
       [f \in (DOMAIN validationErrors) \ {field} |-> validationErrors[f]]
  /\ sub' = [sub EXCEPT !.ev = "input"]
  /\ UNCHANGED <<showForm, editingStudent, isSubmitting, serverError, remote,
                 serverCalls>>

\* the Cancel and X buttons are disabled while isSubmitting
handleCancelForm ==
  /\ formShown
  /\ ~isSubmitting
  /\ showForm' = FALSE
  /\ editingStudent' = << >>
  /\ mountForm(emptyForm)
  /\ sub' = [sub EXCEPT !.ev = "cancel"]
  /\ UNCHANGED <<remote, serverCalls>>

\* a structural phase that lets every form through
structuralPassAlways(fd) == TRUE

\* if (hasValidationErrors(errors)) { ...; return; }
structuralPass(fd) == ~hasValidationErrors(validateStudent(fd))

\* a remote phase that also runs for the edit form
needsRemoteAlways(editing) == TRUE

\* if (!isEditing) { await validateStudentOnServer(...) }
needsRemote(editing) == ~editing

\* a run that goes on after a rejected remote phase
proceedsAnyway(verdict) == TRUE

\* await: a rejected promise throws into the catch block, a resolved one lets
\* the run go on
proceeds(verdict) == verdict = "resolved"

\* the payload handed to validateStudentOnServer
serverPayload(fd) ==
  [name |-> trim(fd.name), email |-> trim(fd.email),
   courseId |-> parseInt(fd.courseId), profileImage |-> fd.profileImage]

\* const studentData, with img the image getRandomProfileImage returns
\* a form that stores the fields as they were typed
studentDataOfUntrimmed(fd, img) ==
  [name |-> fd.name, email |-> fd.email,
   courseId |-> parseInt(fd.courseId),
   profileImage |-> IF fd.profileImage # "" THEN fd.profileImage ELSE img]

studentDataOf(fd, img) ==
  [name |-> trim(fd.name), email |-> trim(fd.email),
   courseId |-> parseInt(fd.courseId),
   profileImage |-> IF fd.profileImage # "" THEN fd.profileImage ELSE img]

\* { ...student, ...studentData }
merged(student, studentData) ==
  [student EXCEPT !.name = studentData.name, !.email = studentData.email,
                  !.courseId = studentData.courseId,
                  !.profileImage = studentData.profileImage]

\* the rest of the try block after the remote phase, as far as the store
\* goes: onUpdate or onSubmit, that is updateStudent or addStudent of the
\* provider, which stays mounted whatever happens to the Dashboard
\* a form that passes every submission to onSubmit, edit mode or not
storeCommitAdds(fd, student) ==
  \E img \in ProfileImages : addStudent(studentDataOf(fd, img))

storeCommit(fd, student) ==
  \E img \in ProfileImages :
    IF student # << >>
    THEN updateStudent(merged(student[1], studentDataOf(fd, img)))
    ELSE addStudent(studentDataOf(fd, img))

\* the rest of the try block in a mounted form: handleUpdateStudent or
\* handleAddStudent of Dashboard also close the form; the form is unmounted,
\* so setIsSubmitting(false) has no effect
commit(fd, student) ==
  /\ storeCommit(fd, student)
  /\ IF student # << >>
     THEN editingStudent' = << >> /\ UNCHANGED showForm
     ELSE showForm' = FALSE /\ UNCHANGED editingStudent

\* a rejection that closes the form
remoteRejectedClosesForm(message) ==
  /\ showForm' = FALSE
  /\ editingStudent' = << >>
  /\ mountForm(emptyForm)
  /\ remote' = Tail(remote)
  /\ sub' = [sub EXCEPT !.ev = "rejected", !.settled = @ + 1]
  /\ UNCHANGED <<vars, serverCalls>>

\* a handler without its catch block: the rejection leaves handleSubmit
remoteRejectedUncaught(message) ==
  /\ isSubmitting' = FALSE
  /\ remote' = Tail(remote)
  /\ sub' = [sub EXCEPT !.ev = "rejected", !.settled = @ + 1, !.escaped = TRUE]
  /\ UNCHANGED <<vars, showForm, editingStudent, formData, validationErrors,
                 serverError, serverCalls>>

\* a handler without the finally block: the form stays disabled
remoteRejectedStaysBusy(message) ==
  /\ serverError' = message
  /\ remote' = Tail(remote)
  /\ sub' = [sub EXCEPT !.ev = "rejected", !.settled = @ + 1]
  /\ UNCHANGED <<vars, showForm, editingStudent, formData, validationErrors,
                 isSubmitting, serverCalls>>

\* catch (error) { setServerError(error.message) } finally { setIsSubmitting(false) }
remoteRejected(message) ==
  /\ serverError' = message
  /\ isSubmitting' = FALSE
  /\ remote' = Tail(remote)
  /\ sub' = [sub EXCEPT !.ev = "rejected", !.settled = @ + 1]
  /\ UNCHANGED <<vars, showForm, editingStudent, formData, validationErrors,
                 serverCalls>>

\* the same catch and finally blocks after the form was unmounted: the two
\* state setters have no effect
remoteRejectedUnmounted(message) ==
  /\ remote' = Tail(remote)
  /\ sub' = [sub EXCEPT !.ev = "rejected", !.settled = @ + 1]
  /\ UNCHANGED <<vars, showForm, editingStudent, formData, validationErrors,
                 isSubmitting, serverError, serverCalls>>

\* the submit button (disabled while isSubmitting): handleSubmit up to its
\* first await, or to its end when nothing is awaited
handleSubmit ==
  /\ formShown
  /\ ~isSubmitting
  /\ sub.n < MaxSubmits
  /\ isEditing \/ Len(issued) + Len(remote) < MaxIds
  /\ IF ~structuralPass(formData)
     THEN /\ validationErrors' = validateStudent(formData)
          /\ sub' = [sub EXCEPT !.ev = "invalid", !.n = @ + 1]
          /\ UNCHANGED <<vars, showForm, editingStudent, formData, isSubmitting,
                         serverError, remote, serverCalls>>
     ELSE IF needsRemote(isEditing)
     THEN /\ isSubmitting' = TRUE
          /\ serverError' = ""
          /\ serverCalls' = serverCalls + 1
          /\ remote' = Append(remote,
                               [pc |-> "microtask", formData |-> formData,
                                student |-> editingStudent,
                                payload |-> serverPayload(formData),
                                storeAtStart |-> state, live |-> TRUE])
          /\ sub' = [sub EXCEPT !.ev = "started", !.n = @ + 1]
          /\ UNCHANGED <<vars, showForm, editingStudent, formData, validationErrors>>
     ELSE /\ commit(formData, editingStudent)
          /\ mountForm(emptyForm)
          /\ sub' = [sub EXCEPT !.ev = "committed", !.n = @ + 1]
          /\ UNCHANGED <<remote, serverCalls>>

\* validateStudentOnServer: the microtask awaited first has run, the
\* network delay timer is armed
remoteMicrotask ==
  /\ \E i \in DOMAIN remote :
       /\ remote[i].pc = "microtask"
       /\ remote' = [remote EXCEPT ![i].pc = "timer"]
  /\ sub' = [sub EXCEPT !.ev = "microtask"]
  /\ UNCHANGED <<vars, showForm, editingStudent, formData, validationErrors,
                 isSubmitting, serverError, serverCalls>>

\* an event loop that takes a timer or an event before the microtasks
microtaskPendingIgnored == FALSE

\* a run of validateStudentOnServer has been awaited and its microtask has
\* not run yet: the microtask queue is emptied at the end of the handler's
\* task, so no event handler and no timer runs before it
microtaskPending == \E i \in DOMAIN remote : remote[i].pc = "microtask"

\* validateStudentOnServer: the network delay is over, the promise settles and
\* handleSubmit goes on after its await.  The delays are equal, so the runs
\* settle in the order they were started.  A run whose form was unmounted
\* goes on all the same, and only its state setters have no effect.
remoteSettles ==
  /\ remote # << >>
  /\ remote[1].pc = "timer"
  /\ ~microtaskPending
  /\ IF proceeds(serverVerdict(remote[1].payload))
     THEN /\ IF remote[1].live
             THEN /\ commit(remote[1].formData, remote[1].student)
                  /\ mountForm(emptyForm)
             ELSE /\ storeCommit(remote[1].formData, remote[1].student)
                  /\ UNCHANGED <<showForm, editingStudent, formData,
                                 validationErrors, isSubmitting, serverError>>
          /\ remote' = Tail(remote)
          /\ sub' = [sub EXCEPT !.ev = "committed", !.settled = @ + 1]
          /\ UNCHANGED serverCalls
     ELSE IF remote[1].live
     THEN remoteRejected("A student with this email already exists")
     ELSE remoteRejectedUnmounted("A student with this email already exists")

\* a view switch that also drops the runs of the unmounted forms
switchToGuideCancels ==
  /\ currentView = "dashboard"
  /\ ~microtaskPending
  /\ currentView' = "guide"
  /\ showForm' = FALSE
  /\ editingStudent' = << >>
  /\ mountForm(emptyForm)
  /\ remote' = << >>
  /\ sub' = [sub EXCEPT !.ev = "guide"]
  /\ UNCHANGED <<vars, serverCalls>>

\* the Learning Guide tab: setCurrentView('guide') unmounts the Dashboard and
\* its forms, the StudentProvider stays; the navigation is not part of the
\* form, so it is not disabled while isSubmitting.  The runs of handleSubmit
\* that wait for their promise are untouched.
switchToGuide ==
  /\ currentView = "dashboard"
  /\ ~microtaskPending
  /\ currentView' = "guide"
  /\ showForm' = FALSE
  /\ editingStudent' = << >>
  /\ mountForm(emptyForm)
  /\ remote' = [i \in DOMAIN remote |-> [remote[i] EXCEPT !.live = FALSE]]
  /\ sub' = [sub EXCEPT !.ev = "guide"]
  /\ UNCHANGED <<vars, serverCalls>>

\* the Dashboard tab: setCurrentView('dashboard') mounts a new Dashboard
switchToDashboard ==
  /\ currentView = "guide"
  /\ currentView' = "dashboard"
  /\ sub' = [sub EXCEPT !.ev = "dashboard"]
  /\ UNCHANGED <<vars, showForm, editingStudent, formData, validationErrors,
                 isSubmitting, serverError, remote, serverCalls>>

\* the Delete button of a StudentCard, confirmed: onDelete is deleteStudent.  The
\* cards are not part of the form, so they are not disabled while a form is
\* shown.
handleDelete(id) ==
  /\ currentView = "dashboard"
  /\ ~microtaskPending
  /\ deleteStudent(id)
  /\ sub' = [sub EXCEPT !.ev = "delete"]
  /\ UNCHANGED <<showForm, editingStudent, formData, validationErrors,
                 isSubmitting, serverError, remote, serverCalls>>

\* --------------------------------------------------------------- useCourses
\* the largest number of fetchCourses calls of one instance
MaxFetches == 5

\* mockCourses, by id
mockCourses == <<1, 2, 3, 4, 5, 6>>

\* data: T | null and error: string | null hold << >> for null and <<v>> for
\* a value v
None == << >>
Some(v) == <<v>>

\* useState<ApiState<Course[]>>({ data: null, loading: true, error: null })
CoursesInit ==
  /\ apiState = [data |-> None, loading |-> TRUE, error |-> None]
  /\ fetches = [pending |-> << >>, calls |-> 0, base |-> 0, mounted |-> TRUE,
                ev |-> "none"]

\* loadCourses up to its await: the loading state is set and fetchCourses is
\* called
loadCourses(ev) ==
  /\ fetches.calls < MaxFetches
  /\ apiState' = [apiState EXCEPT !.loading = TRUE, !.error = None]
  /\ fetches' = [fetches EXCEPT !.pending = Append(@, fetches.calls + 1),
                                !.calls = @ + 1, !.ev = ev]

\* useEffect(() => { loadCourses(); }, []): once, after the first render
mountEffect ==
  /\ fetches.mounted
  /\ fetches.calls = fetches.base
  /\ loadCourses("mount")

\* retryCourses, which the Retry button of Dashboard's error screen calls
retryCourses ==
  /\ fetches.mounted
  /\ fetches.calls > fetches.base
  /\ loadCourses("retry")

\* a catch block that tries again by itself
fetchFailsRetried(message) ==
  /\ fetches.mounted
  /\ apiState' = [data |-> None, loading |-> TRUE, error |-> None]
  /\ fetches' = [fetches EXCEPT
                   !.pending = IF fetches.calls < MaxFetches
                               THEN Append(Tail(@), fetches.calls + 1)
                               ELSE Tail(@),
                   !.calls = IF @ < MaxFetches THEN @ + 1 ELSE @,
                   !.ev = "failed"]

\* catch (error) { setApiState({ data: null, loading: false, error: ... }) }
fetchFails(message) ==
  /\ fetches.mounted
  /\ apiState' = [data |-> None, loading |-> FALSE, error |-> Some(message)]
  /\ fetches' = [fetches EXCEPT !.pending = Tail(@), !.ev = "failed"]

\* setApiState({ data: courses, loading: false, error: null })
fetchSucceeds ==
  /\ fetches.mounted
  /\ apiState' = [data |-> Some(mockCourses), loading |-> FALSE, error |-> None]
  /\ fetches' = [fetches EXCEPT !.pending = Tail(@), !.ev = "loaded"]

\* the call that settles next was made by the hook instance that is mounted
ownCall == fetches.mounted /\ Head(fetches.pending) > fetches.base

\* fetchCourses settles after the hook instance that called it was unmounted:
\* setApiState has no effect
fetchSettlesUnmounted ==
  /\ ~ownCall
  /\ fetches' = [fetches EXCEPT !.pending = Tail(@), !.ev = "dropped"]
  /\ UNCHANGED apiState

\* fetchCourses: the delay is over; Math.random() < 0.1 makes it throw, and
\* its catch block throws 'Failed to fetch courses: ' + error.message.  The
\* delays are equal, so the calls settle in the order they were made.
fetchSettles(random) ==
  /\ fetches.pending # << >>
  /\ IF ~ownCall THEN fetchSettlesUnmounted
     ELSE IF random = "below"
     THEN fetchFails("Failed to fetch courses: Failed to fetch courses from server")
     ELSE fetchSucceeds

\* the Dashboard that uses the hook is unmounted; useCourses has no cleanup
unmountCourses ==
  /\ fetches.mounted
  /\ fetches' = [fetches EXCEPT !.mounted = FALSE, !.ev = "unmount"]
  /\ UNCHANGED apiState

\* App shows the Dashboard again: a new instance of useCourses starts from
\* its initial state, and the calls made so far belong to earlier instances
remountCourses ==
  /\ ~fetches.mounted
  /\ apiState' = [data |-> None, loading |-> TRUE, error |-> None]
  /\ fetches' = [fetches EXCEPT !.mounted = TRUE, !.base = fetches.calls,
                                !.ev = "remount"]

\* an error screen whose Retry button is there while the courses are loading
retryVisibleAlways == TRUE

\* Dashboard renders the Retry button on its error screen only: not while
\* loading, and then when there is an error or no course list
retryVisible ==
  /\ ~apiState.loading
  /\ (apiState.error # None \/ apiState.data = None)

\* a click on the Retry button of Dashboard
clickRetry ==
  /\ retryVisible
  /\ retryCourses

\* ---------------------------------------------------- the search pipeline
\* the largest number of runs of the effect of SearchAndFilter that are
\* counted; a run that changes neither the store nor the term the effect ran
\* for last is not taken beyond it
MaxDispatches == 4

SyncInit ==
  sync = [deps |-> << >>, fn |-> 0, n |-> 0, cleared |-> FALSE,
          seen |-> {Str_empty}]

\* an effect with an empty dependency list: it runs after the first render only
searchEffectOnce ==
  /\ mounted
  /\ sync.deps = << >>
  /\ setSearchTerm(debouncedValue)
  /\ sync' = [sync EXCEPT !.deps = <<debouncedValue, sync.fn>>,
                          !.fn = @ + 1,
                          !.n = IF @ < MaxDispatches THEN @ + 1 ELSE @]

\* useEffect(() => { onSearchChange(debouncedSearchTerm) },
\*           [debouncedSearchTerm, onSearchChange]):
\* the effect runs after the first render and after each render in which one
\* of the two dependencies differs from the render before.  onSearchChange is
\* setSearchTerm of the context: its dispatch makes the reducer return a new
\* state object, StudentProvider renders again and creates a new
\* setSearchTerm function, which Dashboard passes down.
searchEffect ==
  /\ mounted
  /\ IF sync.deps = << >> THEN TRUE
     ELSE IF sync.deps[1] # debouncedValue THEN TRUE
     ELSE IF state.searchTerm # debouncedValue THEN TRUE
     ELSE sync.n < MaxDispatches
  /\ sync.deps # <<debouncedValue, sync.fn>>
  /\ setSearchTerm(debouncedValue)
  /\ sync' = [sync EXCEPT !.deps = <<debouncedValue, sync.fn>>,
                          !.fn = @ + 1,
                          !.n = IF @ < MaxDispatches THEN @ + 1 ELSE @]

\* handleSearchChange: setLocalSearchTerm(e.target.value); the new term goes
\* to useDebounce with the next render
handleSearchChange(v) ==
  /\ render(v)
  /\ sync' = [sync EXCEPT !.cleared = FALSE, !.seen = @ \cup {v}]
  /\ UNCHANGED vars

\* clearSearch, the X button shown while the input is not empty:
\* setLocalSearchTerm(''); onSearchChange('').  The dispatch makes
\* StudentProvider render again, with a new setSearchTerm function.
clearSearch ==
  /\ value # Str_empty
  /\ render(Str_empty)
  /\ setSearchTerm(Str_empty)
  /\ sync' = [sync EXCEPT !.cleared = TRUE, !.fn = @ + 1]

\* ----------------------------------------------------------- specifications
\* the store alone, driven through its helper functions
Init ==
  /\ StoreInit
  /\ HookInit(Str_empty, DelayTicks)
  /\ CallInit
  /\ FormInit
  /\ CoursesInit
  /\ SyncInit

AddStudent == (\E d \in Drafts : addStudent(d)) /\ UNCHANGED <<hookVars, callVars, formVars, courseVars, searchVars>>
UpdateStudent == (\E p \in Payloads : updateStudent(p)) /\ UNCHANGED <<hookVars, callVars, formVars, courseVars, searchVars>>
DeleteStudent == (\E id \in Ids : deleteStudent(id)) /\ UNCHANGED <<hookVars, callVars, formVars, courseVars, searchVars>>
SetSearchTerm == (\E t \in Terms : setSearchTerm(t)) /\ UNCHANGED <<hookVars, callVars, formVars, courseVars, searchVars>>
SetCourseFilter == (\E f \in Filters : setCourseFilter(f)) /\ UNCHANGED <<hookVars, callVars, formVars, courseVars, searchVars>>

Next ==
  \/ AddStudent
  \/ UpdateStudent
  \/ DeleteStudent
  \/ SetSearchTerm
  \/ SetCourseFilter

Spec == Init /\ [][Next]_vars

\* the store as its context value exposes it: the helper functions and
\* dispatch
Dispatch ==
  (\E action \in LoadActions : dispatch(action))
  /\ UNCHANGED <<hookVars, callVars, formVars, courseVars, searchVars>>

NextContext ==
  \/ Next
  \/ Dispatch

SpecContext == Init /\ [][NextContext]_vars

\* one useDebounce instance, its owner and the event loop
InitDebounce ==
  /\ StoreInit
  /\ \E v \in DValues : \E d \in Delays : HookInit(v, d)
  /\ CallInit
  /\ FormInit
  /\ CoursesInit
  /\ SyncInit

Render == (\E v \in DValues : render(v)) /\ UNCHANGED <<vars, callVars, formVars, courseVars, searchVars>>
TimerFires == (\E t \in timers : timerFires(t)) /\ UNCHANGED <<vars, callVars, formVars, courseVars, searchVars>>
Unmount == unmount /\ UNCHANGED <<vars, callVars, formVars, courseVars, searchVars>>
Tick == tick /\ UNCHANGED <<vars, callVars, formVars, courseVars, searchVars>>

NextDebounce ==
  \/ Render
  \/ TimerFires
  \/ Unmount
  \/ Tick

SpecDebounce == InitDebounce /\ [][NextDebounce]_hookVars

\* the two validation functions, called on their own
InitValidation ==
  /\ StoreInit
  /\ HookInit(Str_empty, DelayTicks)
  /\ CallInit
  /\ FormInit
  /\ CoursesInit
  /\ SyncInit

ValidateStudent ==
  (\E fd \in FormDatas : callValidateStudent(fd)) /\ UNCHANGED <<vars, hookVars, formVars, courseVars, searchVars>>
ValidateStudentOnServer ==
  (\E sd \in ServerArgs : callValidateStudentOnServer(sd))
  /\ UNCHANGED <<vars, hookVars, formVars, courseVars, searchVars>>

NextValidation ==
  \/ ValidateStudent
  \/ ValidateStudentOnServer

SpecValidation == InitValidation /\ [][NextValidation]_callVars

\* the submission workflow: Dashboard, the StudentForm it shows, the remote
\* validation and the store
InitForm ==
  /\ StoreInit
  /\ HookInit(Str_empty, DelayTicks)
  /\ CallInit
  /\ FormInit
  /\ CoursesInit
  /\ SyncInit

OpenCreateForm == openCreateForm /\ UNCHANGED <<vars, hookVars, callVars, currentView, courseVars, searchVars>>
HandleEditStudent ==
  (\E i \in 1..Len(state.students) : handleEditStudent(state.students[i]))
  /\ UNCHANGED <<vars, hookVars, callVars, currentView, courseVars, searchVars>>
HandleInputChange ==
  (\E field \in {"name", "email", "courseId"} :
     \E v \in InputValues(field) : handleInputChange(field, v))
  /\ UNCHANGED <<vars, hookVars, callVars, currentView, courseVars, searchVars>>
HandleCancelForm == handleCancelForm /\ UNCHANGED <<vars, hookVars, callVars, currentView, courseVars, searchVars>>
HandleSubmit == handleSubmit /\ UNCHANGED <<hookVars, callVars, currentView, courseVars, searchVars>>
RemoteMicrotask == remoteMicrotask /\ UNCHANGED <<hookVars, callVars, currentView, courseVars, searchVars>>
RemoteSettles == remoteSettles /\ UNCHANGED <<hookVars, callVars, currentView, courseVars, searchVars>>

NextForm ==
  \/ OpenCreateForm
  \/ HandleEditStudent
  \/ HandleInputChange
  \/ HandleCancelForm
  \/ HandleSubmit
  \/ RemoteMicrotask
  \/ RemoteSettles

formAll == <<vars, formVars, courseVars, searchVars>>

SpecForm == InitForm /\ [][NextForm]_formAll

\* the application: the submission workflow together with the view switch of
\* App and the Delete button of the cards, which stay within reach of the
\* keyboard while a form is shown.  One form is shown at a time.
SwitchToGuide == switchToGuide /\ UNCHANGED <<hookVars, callVars, courseVars, searchVars>>
SwitchToDashboard == switchToDashboard /\ UNCHANGED <<hookVars, callVars, courseVars, searchVars>>
HandleDelete ==
  (\E i \in 1..Len(state.students) : handleDelete(state.students[i].id))
  /\ UNCHANGED <<hookVars, callVars, currentView, courseVars, searchVars>>

NextApp ==
  \/ NextForm
  \/ SwitchToGuide
  \/ SwitchToDashboard
  \/ HandleDelete

SpecApp == InitForm /\ [][NextApp]_formAll

\* the submission workflow with the Delete button of the cards
NextEdit ==
  \/ NextForm
  \/ HandleDelete

SpecEdit == InitForm /\ [][NextEdit]_formAll

\* the create form, the only one that starts remote validations, with the
\* view switch; the event loop runs every microtask and every timer that is
\* due
NextCreate ==
  \/ OpenCreateForm
  \/ HandleInputChange
  \/ HandleCancelForm
  \/ HandleSubmit
  \/ RemoteMicrotask
  \/ RemoteSettles
  \/ SwitchToGuide
  \/ SwitchToDashboard

SpecCreateLive ==
  /\ InitForm
  /\ [][NextCreate]_formAll
  /\ WF_formAll(RemoteMicrotask)
  /\ WF_formAll(RemoteSettles)

\* the form in the dashboard view, create and edit, with the same scheduling
SpecFormLive ==
  /\ InitForm
  /\ [][NextForm]_formAll
  /\ WF_formAll(RemoteMicrotask)
  /\ WF_formAll(RemoteSettles)

\* one instance of useCourses from its first render on
InitCourses ==
  /\ StoreInit
  /\ HookInit(Str_empty, DelayTicks)
  /\ CallInit
  /\ FormInit
  /\ CoursesInit
  /\ SyncInit

MountEffect == mountEffect /\ UNCHANGED <<vars, hookVars, callVars, formVars, searchVars>>
RetryCourses == retryCourses /\ UNCHANGED <<vars, hookVars, callVars, formVars, searchVars>>
FetchSettles ==
  (\E random \in {"below", "above"} : fetchSettles(random))
  /\ UNCHANGED <<vars, hookVars, callVars, formVars, searchVars>>
UnmountCourses == unmountCourses /\ UNCHANGED <<vars, hookVars, callVars, formVars, searchVars>>

RemountCourses == remountCourses /\ UNCHANGED <<vars, hookVars, callVars, formVars, searchVars>>
ClickRetry == clickRetry /\ UNCHANGED <<vars, hookVars, callVars, formVars, searchVars>>

NextCourses ==
  \/ MountEffect
  \/ RetryCourses
  \/ FetchSettles
  \/ UnmountCourses
  \/ RemountCourses

SpecCourses == InitCourses /\ [][NextCourses]_courseVars

\* useCourses as Dashboard uses it: retryCourses is called by the Retry button
NextDashboardCourses ==
  \/ MountEffect
  \/ ClickRetry
  \/ FetchSettles
  \/ UnmountCourses
  \/ RemountCourses

SpecDashboardCourses == InitCourses /\ [][NextDashboardCourses]_courseVars

\* the transitions of the store as functions of (state, payload): the store
\* is filled through addStudent, and in each state it reaches every
\* transition is applied with every payload
InitTransitions ==
  /\ StoreInit
  /\ HookInit(Str_empty, DelayTicks)
  /\ CallInit
  /\ FormInit
  /\ CoursesInit
  /\ SyncInit

FillStore ==
  /\ \E d \in Drafts : addStudent(d)
  /\ arg' = emptyForm
  /\ ret' = [fn |-> "none", out |-> "none"]
  /\ UNCHANGED <<hookVars, formVars, courseVars, searchVars>>
BothAddStudent ==
  (\E d \in Drafts : bothAddStudent(d))
  /\ UNCHANGED <<vars, hookVars, formVars, courseVars, searchVars>>
BothUpdateStudent ==
  (\E p \in Payloads : bothUpdateStudent(p))
  /\ UNCHANGED <<vars, hookVars, formVars, courseVars, searchVars>>
BothDeleteStudent ==
  (\E id \in Ids : bothDeleteStudent(id))
  /\ UNCHANGED <<vars, hookVars, formVars, courseVars, searchVars>>
BothSetSearchTerm ==
  (\E t \in Terms : bothSetSearchTerm(t))
  /\ UNCHANGED <<vars, hookVars, formVars, courseVars, searchVars>>
BothSetCourseFilter ==
  (\E f \in Filters : bothSetCourseFilter(f))
  /\ UNCHANGED <<vars, hookVars, formVars, courseVars, searchVars>>
TwiceUpdateStudent ==
  (\E p \in Payloads : twiceUpdateStudent(p))
  /\ UNCHANGED <<vars, hookVars, formVars, courseVars, searchVars>>

NextTransitions ==
  \/ FillStore
  \/ BothAddStudent
  \/ BothUpdateStudent
  \/ BothDeleteStudent
  \/ BothSetSearchTerm
  \/ BothSetCourseFilter
  \/ TwiceUpdateStudent

transitionVars == <<vars, callVars>>

SpecTransitions == InitTransitions /\ [][NextTransitions]_transitionVars

\* SearchAndFilter in Dashboard: the search input, useDebounce(.., 300), the
\* effect and the store
InitSearch ==
  /\ StoreInit
  /\ HookInit(Str_empty, DelayTicks)
  /\ CallInit
  /\ FormInit
  /\ CoursesInit
  /\ SyncInit

HandleSearchChange ==
  (\E v \in DValues : handleSearchChange(v))
  /\ UNCHANGED <<callVars, formVars, courseVars>>
ClearSearch == clearSearch /\ UNCHANGED <<callVars, formVars, courseVars>>
SearchTimerFires ==
  (\E t \in timers : timerFires(t))
  /\ UNCHANGED <<vars, callVars, formVars, courseVars, searchVars>>
SearchTick == tick /\ UNCHANGED <<vars, callVars, formVars, courseVars, searchVars>>
SearchEffect == searchEffect /\ UNCHANGED <<hookVars, callVars, formVars, courseVars>>

NextSearch ==
  \/ HandleSearchChange
  \/ ClearSearch
  \/ SearchTimerFires
  \/ SearchTick
  \/ SearchEffect

searchAll == <<vars, hookVars, searchVars>>

SpecSearch == InitSearch /\ [][NextSearch]_searchAll

\* the same with the scheduling of the browser: time passes, a timer that is
\* due is run, and React runs an effect whose dependencies have changed
SpecSearchLive ==
  /\ InitSearch
  /\ [][NextSearch]_searchAll
  /\ WF_searchAll(SearchTick)
  /\ WF_searchAll(SearchTimerFires)
  /\ WF_searchAll(SearchEffect)

\* ------------------------------------------------------- auxiliary notions
\* the record of the list that has the given id
RecOf(students, id) ==
  students[CHOOSE i \in 1..Len(students) : students[i].id = id]

\* position of an id in the order the ids were handed out
IssuedAt(id) == CHOOSE i \in 1..Len(issued) : issued[i] = id

\* t occurs in s: some window of s spells t, character by character
IsSubstring(t, s) ==
  \E start \in 1..(Len(s) + 1) :
    \A k \in 1..Len(t) : start + k - 1 <= Len(s) /\ s[start + k - 1] = t[k]

\* the state with other filter fields
WithFilters(s, term, filter) ==
  [s EXCEPT !.searchTerm = term, !.selectedCourseFilter = filter]

\* a is b with some elements left out, the others in the same order
RECURSIVE IsSubSeq(_, _)
IsSubSeq(a, b) ==
  IF a = << >> THEN TRUE
  ELSE IF b = << >> THEN FALSE
  ELSE IF Head(a) = Head(b) THEN IsSubSeq(Tail(a), Tail(b))
  ELSE IsSubSeq(a, Tail(b))

\* -------------------------------------------------------------- properties

\* C1: after any sequence of addStudent / updateStudent / deleteStudent no two
\* records of the store have the same id, and an updateStudent leaves the
\* id at every position of the list as it was.
C1_IdsUniqueAndStable ==
  /\ [](\A i, j \in 1..Len(state.students) :
          i # j => state.students[i].id # state.students[j].id)
  /\ [][last'.op = "updateStudent" =>
          /\ Len(state'.students) = Len(state.students)
          /\ \A i \in 1..Len(state.students) :
               state'.students[i].id = state.students[i].id]_vars

\* C1 witness: an update has replaced one of two records
C1_Witness ==
  /\ last.op = "updateStudent"
  /\ last.hit
  /\ Len(state.students) = 2
  /\ RecOf(state.students, last.id).updatedAt = now

\* C2: updateStudent or deleteStudent with an id no record has leaves
\* students, searchTerm and selectedCourseFilter as they were.
C2_AbsentIdIsNoOp ==
  [][(last'.op \in {"updateStudent", "deleteStudent"}
      /\ last'.id \notin IdsOf(state.students))
     => state' = state]_vars

\* C2 witness: an update missed its id while the store held a record
C2_Witness ==
  /\ last.op = "updateStudent"
  /\ ~last.hit
  /\ Len(state.students) >= 1
  /\ state.searchTerm # Str_empty

C4_Both(st) ==
  /\ \/ state.searchTerm = Str_empty
     \/ IsSubstring(toLowerCase(state.searchTerm), toLowerCase(st.name))
     \/ IsSubstring(toLowerCase(state.searchTerm), toLowerCase(st.email))
  /\ \/ state.selectedCourseFilter = Null
     \/ st.courseId = state.selectedCourseFilter

C4_ProjectionIsIntersection ==
  LET all == state.students
      shown == getFilteredStudents
  IN /\ \A i \in 1..Len(all) :
          C4_Both(all[i]) <=> \E k \in 1..Len(shown) : shown[k] = all[i]
     /\ \A k \in 1..Len(shown) : \E i \in 1..Len(all) : all[i] = shown[k]
     /\ Len(shown) = Cardinality({i \in 1..Len(all) : C4_Both(all[i])})

\* C4 witness: one record passes both predicates (by its email) and is shown,
\* another one passes the search predicate only and is left out
C4_Witness ==
  /\ state.searchTerm = Str_AN
  /\ state.selectedCourseFilter = 1
  /\ Len(getFilteredStudents) = 1
  /\ getFilteredStudents[1].name = Name_Bo
  /\ \E i \in 1..Len(state.students) :
       /\ state.students[i].courseId = 2
       /\ matchesSearch(state.students[i], state.searchTerm)

\* C5 as stated: the search term is trimmed before matching, so the
\* projection under searchTerm equals the projection under trim(searchTerm).
C5_TermIsTrimmed ==
  getFilteredStudents =
    getFilteredStudentsIn([state EXCEPT !.searchTerm = trim(state.searchTerm)])

\* C5 as amended: the search term is matched as it stands, surrounding
\* whitespace included (only lower-cased): every record shown has the
\* untrimmed lower-cased term in its lower-cased name or email, and the
\* projection under searchTerm is the projection under trim(searchTerm) with
\* some records left out, the others in the same order.
C5_TermMatchedUntrimmed ==
  LET shown == getFilteredStudents
      shownTrimmed ==
        getFilteredStudentsIn([state EXCEPT !.searchTerm = trim(state.searchTerm)])
  IN /\ IsSubSeq(shown, shownTrimmed)
     /\ \A k \in 1..Len(shown) :
          \/ IsSubstring(toLowerCase(state.searchTerm), toLowerCase(shown[k].name))
          \/ IsSubstring(toLowerCase(state.searchTerm), toLowerCase(shown[k].email))

\* C5 witness: under " AN " the one record with " an " in its name is shown,
\* where the trimmed term shows two records
C5_Witness ==
  /\ state.searchTerm = Str_sp_AN_sp
  /\ Len(getFilteredStudents) = 1
  /\ getFilteredStudents[1].name = Name_J_An_L
  /\ Len(getFilteredStudentsIn([state EXCEPT !.searchTerm = trim(state.searchTerm)])) = 2

\* C6: getFilteredStudents lists the records in the order they were added:
\* of two records shown, the one whose id was handed out earlier comes first.
C6_ProjectionInInsertionOrder ==
  LET shown == getFilteredStudents
  IN \A i, j \in 1..Len(shown) :
       i < j => IssuedAt(shown[i].id) < IssuedAt(shown[j].id)

\* C6 witness: the record added first was updated last and is still shown first
C6_Witness ==
  /\ last.op = "updateStudent"
  /\ last.hit
  /\ Len(getFilteredStudents) = 2
  /\ getFilteredStudents[1].id = last.id
  /\ getFilteredStudents[1].updatedAt > getFilteredStudents[2].updatedAt

\* C7: setSearchTerm changes searchTerm only and setCourseFilter changes
\* selectedCourseFilter only; the records and the other field stay.
C7_SettersTouchOwnFieldOnly ==
  [][/\ last'.op = "setSearchTerm" =>
          /\ state'.students = state.students
          /\ state'.selectedCourseFilter = state.selectedCourseFilter
     /\ last'.op = "setCourseFilter" =>
          /\ state'.students = state.students
          /\ state'.searchTerm = state.searchTerm]_vars

\* C7 witness: a search term was set while records and a course filter were there
C7_Witness ==
  /\ last.op = "setSearchTerm"
  /\ state.searchTerm = Str_AN
  /\ state.selectedCourseFilter = 1
  /\ Len(state.students) = 2

\* C8 as stated: a record that addStudent has just put into the store has
\* createdAt equal to updatedAt.
C8_AddedWithEqualTimestamps ==
  last.op = "addStudent" =>
    RecOf(state.students, last.id).createdAt = RecOf(state.students, last.id).updatedAt

\* C9 as stated: an updateStudent on an existing record leaves it with
\* updatedAt >= createdAt and with updatedAt strictly greater than before.
C9_UpdateAdvancesUpdatedAt ==
  [][(last'.op = "updateStudent" /\ last'.id \in IdsOf(state.students)) =>
       LET old == RecOf(state.students, last'.id)
           new == RecOf(state'.students, last'.id)
       IN /\ new.updatedAt >= new.createdAt
          /\ new.updatedAt > old.updatedAt]_vars

\* C10 as stated: a record keeps the createdAt it was added with through
\* every transition of the store.
C10_CreatedAtImmutable ==
  [][\A id \in IdsOf(state.students) \cap IdsOf(state'.students) :
       RecOf(state'.students, id).createdAt = RecOf(state.students, id).createdAt]_vars

\* C11 as stated: when the input has changed several times, each change less
\* than `delay` after the one before, and then stops, debouncedValue changes
\* exactly once, to the last value, exactly `delay` after the last change,
\* and does not change while a timer is armed.
C11_BurstChangesOnceAtDelay ==
  /\ (mounted /\ timers = {} /\ hist.burst >= 2 /\ hist.tight) =>
       /\ hist.flips = 1
       /\ debouncedValue = value
       /\ hist.firedAt = hist.lastChangeAt + delay
  /\ (mounted /\ timers # {}) => hist.flips = 0

\* C11 as amended: such a burst ends in exactly one timer callback, which sets
\* debouncedValue to the last value, not earlier than `delay` after the last
\* change; debouncedValue does not change while a timer is armed, and the one
\* callback changes it exactly when the last value differs from the value
\* held before the burst.
C11_BurstSetsOnceNotBeforeDelay ==
  /\ (mounted /\ timers = {} /\ hist.burst >= 1) =>
       /\ hist.sets = 1
       /\ debouncedValue = value
       /\ hist.firedAt >= hist.lastChangeAt + delay
       /\ hist.flips = (IF value # hist.held THEN 1 ELSE 0)
  /\ (mounted /\ timers # {}) =>
       /\ hist.sets = 0
       /\ hist.flips = 0
       /\ debouncedValue = hist.held

\* C11 witness: three changes, the last one at 100 ms, delay 300 ms, and the
\* one callback ran at 400 ms and set "abc"
C11_Witness ==
  /\ delay = DelayTicks
  /\ hist.burst = 3
  /\ hist.tight
  /\ hist.lastChangeAt = 2
  /\ hist.firedAt = 8
  /\ hist.sets = 1
  /\ hist.flips = 1
  /\ debouncedValue = Str_abc
  /\ timers = {}

\* C12: at every moment at most one timer of the instance is armed, and it is
\* the one of the current value: a render with a new value clears the timer
\* of the previous value before it arms its own, so every callback that runs
\* sets the value that was scheduled last.
C12_AtMostOneLiveTimer ==
  /\ [](/\ Cardinality(timers) <= 1
        /\ \A t \in timers : t.handle = handler /\ t.value = value)
  /\ [][hist'.sets # hist.sets => debouncedValue' = value]_hookVars

\* C12 witness: a value was superseded while its timer was armed, and the
\* callback that ran afterwards set the newer value
C12_Witness ==
  /\ hist.op = "fire"
  /\ hist.burst >= 2
  /\ hist.sets = 1
  /\ mounted
  /\ debouncedValue = value
  /\ debouncedValue # hist.held

\* C13: when the owner is unmounted while a timer is armed the timer is
\* cleared: afterwards no timer of the instance is armed, no callback runs and
\* debouncedValue stays.
C13_UnmountClearsTimer ==
  /\ [](~mounted => timers = {})
  /\ [][~mounted => (hist'.sets = hist.sets /\ debouncedValue' = debouncedValue)]_hookVars

\* C13 witness: the unmount found a timer armed for a value that was never
\* set, and the time the timer was due at has passed
C13_Witness ==
  /\ ~mounted
  /\ hist.cut
  /\ debouncedValue # value
  /\ clock > hist.lastChangeAt + delay

\* C14: with delay 0 the step that schedules a changed value leaves
\* debouncedValue as it was; debouncedValue changes only in a timer turn,
\* which is a later step.
C14_ZeroDelayIsNotSynchronous ==
  [][delay = 0 =>
       /\ value' # value => debouncedValue' = debouncedValue
       /\ debouncedValue' # debouncedValue => (hist'.op = "fire" /\ value' = value)]_hookVars

\* C14 witness: with delay 0 a new value has just been scheduled, its timer is
\* due, and debouncedValue is still the old value
C14_Witness ==
  /\ delay = 0
  /\ hist.op = "render"
  /\ debouncedValue # value
  /\ \E t \in timers : t.value = value /\ t.due = clock

\* the local@domain.tld shape: one "@", not in front, no whitespace, and after
\* the "@" a "." that is neither next to the "@" nor the last character
EmailShape(e) ==
  /\ Cardinality({i \in 1..Len(e) : e[i] = "@"}) = 1
  /\ \A i \in 1..Len(e) : e[i] # " "
  /\ e[1] # "@"
  /\ \E i \in 1..Len(e) : \E k \in 1..Len(e) :
       e[i] = "@" /\ e[k] = "." /\ i + 1 < k /\ k < Len(e)

C18_RemoteVerdictByEmail ==
  /\ ret.fn = "validateStudentOnServer" =>
       /\ ret.out \in {"rejected", "resolved"}
       /\ ret.out = "rejected" <=>
            \/ toLowerCase(arg.email) = Email_test
            \/ toLowerCase(arg.email) = Email_admin
  /\ \A a, b \in ServerArgs :
       a.email = b.email => serverVerdict(a) = serverVerdict(b)

\* C18 witness: TEST@Example.com was rejected
C18_Witness ==
  /\ ret.fn = "validateStudentOnServer"
  /\ arg.email = Email_TEST
  /\ ret.out = "rejected"

\* C16: a submission that fails the structural phase does not start the
\* remote phase (the number of validateStudentOnServer calls stays, nothing is
\* awaited), leaves isSubmitting false, reports the field errors and
\* dispatches nothing to the store.
C16_StructuralFailureStopsSubmission ==
  [][(sub'.n = sub.n + 1 /\ hasValidationErrors(validateStudent(formData))) =>
       /\ serverCalls' = serverCalls
       /\ remote = << >> /\ remote' = << >>
       /\ ~isSubmitting /\ ~isSubmitting'
       /\ validationErrors' = validateStudent(formData)
       /\ validationErrors' # NoErrors
       /\ state' = state /\ last' = last /\ issued' = issued]_formAll

\* C16 witness: after a create went through, a submission with an empty name
\* was refused with a name error
C16_Witness ==
  /\ sub.ev = "invalid"
  /\ "name" \in DOMAIN validationErrors
  /\ serverCalls = 1
  /\ Len(state.students) = 1
  /\ ~isSubmitting
  /\ showForm

\* C17: a submission calls validateStudentOnServer exactly when it comes from
\* the create form and has passed the structural phase; no other step calls
\* it, and a form opened on an existing student never calls it or waits for it.
C17_RemotePhaseForCreateOnly ==
  [][/\ sub'.n = sub.n + 1 =>
          /\ serverCalls' \in {serverCalls, serverCalls + 1}
          /\ serverCalls' = serverCalls + 1 <=>
               (~isEditing /\ validateStudent(formData) = NoErrors)
     /\ sub'.n = sub.n => serverCalls' = serverCalls
     /\ isEditing => (serverCalls' = serverCalls /\ remote' = << >>)]_formAll

\* C17 witness: a create was validated remotely, then an edit of the record
\* was committed without another call
C17_Witness ==
  /\ sub.ev = "committed"
  /\ last.op = "updateStudent"
  /\ last.hit
  /\ serverCalls = 1
  /\ sub.n = 2

\* C19: the store is changed only after validation: an Add only in the step
\* in which the remote phase of a create submission settles, for a form that
\* passes the structural phase and an email outside the denylist, with the
\* data of that submission; an Update only in the submit step of an edit form
\* that passes the structural phase.  No step before or during validation
\* dispatches.
C19_MutationOnlyAfterValidation ==
  [][(state' # state \/ last' # last) =>
       \/ /\ last'.op = "addStudent"
          /\ remote # << >> /\ remote' = << >>
          /\ remote[1].pc = "timer"
          /\ remote[1].student = << >>
          /\ isSubmitting
          /\ validateStudent(remote[1].formData) = NoErrors
          /\ toLowerCase(trim(remote[1].formData.email)) \notin {Email_test, Email_admin}
          /\ Len(state'.students) = Len(state.students) + 1
          /\ LET added == state'.students[Len(state'.students)]
             IN /\ added.name = trim(remote[1].formData.name)
                /\ added.email = trim(remote[1].formData.email)
       \/ /\ last'.op = "updateStudent"
          /\ remote = << >> /\ remote' = << >>
          /\ isEditing
          /\ sub'.n = sub.n + 1
          /\ validateStudent(formData) = NoErrors
          /\ last'.id = editingStudent[1].id]_formAll

\* C19 witness: a submission was refused by the structural phase, a later one
\* passed both phases and its record was added
C19_Witness ==
  /\ sub.ev = "committed"
  /\ last.op = "addStudent"
  /\ sub.n >= 2
  /\ serverCalls = 1
  /\ ~showForm
  /\ Len(state.students) = 1

C21_RejectionStaysInHandler ==
  [][/\ ~sub'.escaped
     /\ (/\ Len(remote') < Len(remote)
         /\ ~proceeds(serverVerdict(remote[1].payload))) =>
          /\ sub'.ev = "rejected"
          /\ state' = state
          /\ remote[1].live =>
               /\ serverError' = "A student with this email already exists"
               /\ ~isSubmitting'
               /\ formShown']_formAll

C21_Witness ==
  /\ sub.ev = "rejected"
  /\ serverError = "A student with this email already exists"
  /\ ~sub.escaped

\* C22: every remote validation that was started settles, whether or not its
\* form is still mounted: a validation is either waiting or settled at any
\* time, none is dropped, and whenever some are waiting, a time comes when
\* all that were started have settled
C22_StartedValidationCompletes ==
  /\ [](sub.settled + Len(remote) = serverCalls)
  /\ (sub.settled < serverCalls) ~> (sub.settled = serverCalls)

C22_Witness ==
  /\ currentView = "guide"
  /\ sub.ev \in {"committed", "rejected"}
  /\ sub.settled = serverCalls
  /\ sub.settled >= 1

C29_LateResultDiscarded ==
  [][(/\ Len(remote') < Len(remote)
      /\ ~remote[1].live) => state' = state]_formAll

\* C30: submitting an edit form whose record has been deleted meanwhile
\* leaves every record of the store as it is, and the deleted id absent
C30_StaleEditDoesNotRestore ==
  [][(/\ isEditing
      /\ sub'.n = sub.n + 1
      /\ sub'.ev = "committed"
      /\ \A i \in 1..Len(state.students) :
           state.students[i].id # editingStudent[1].id) =>
        state'.students = state.students]_formAll

C30_Witness ==
  /\ sub.ev = "committed"
  /\ last.op = "updateStudent"
  /\ ~last.hit
  /\ Len(state.students) >= 1

\* C23: a failed course fetch leaves loading false, data null and the error
\* set; fetchCourses is called once more by each retryCourses and, apart from
\* the call of the mount effect, by nothing else
C23_FailedFetchIsNotRetried ==
  [][/\ fetches'.ev = "failed" =>
          /\ apiState'.loading = FALSE
          /\ apiState'.data = None
          /\ apiState'.error # None
          /\ fetches'.calls = fetches.calls
          /\ Len(fetches'.pending) = Len(fetches.pending) - 1
     /\ fetches'.ev = "retry" =>
          /\ fetches'.calls = fetches.calls + 1
          /\ Len(fetches'.pending) = Len(fetches.pending) + 1
     /\ fetches'.calls # fetches.calls => fetches'.ev \in {"mount", "retry"}
    ]_courseVars

C23_Witness ==
  /\ fetches.ev = "failed"
  /\ fetches.calls >= 2
  /\ fetches.pending = << >>
  /\ apiState = [data |-> None, loading |-> FALSE,
                 error |-> Some("Failed to fetch courses: Failed to fetch courses from server")]

\* the fields of a record that the payload of addStudent fixes
Given(st) ==
  [name |-> st.name, email |-> st.email, courseId |-> st.courseId,
   profileImage |-> st.profileImage]

\* a record without its updatedAt
Unstamped(st) ==
  [id |-> st.id, name |-> st.name, email |-> st.email, courseId |-> st.courseId,
   profileImage |-> st.profileImage, createdAt |-> st.createdAt]

C26_UpdateTwiceIsUpdateOnce ==
  ret.fn = "updateStudentTwice" =>
    /\ Len(ret.out.b.students) = Len(ret.out.a.students)
    /\ \A i \in 1..Len(ret.out.a.students) :
         Unstamped(ret.out.b.students[i]) = Unstamped(ret.out.a.students[i])
    /\ ret.out.b.searchTerm = ret.out.a.searchTerm
    /\ ret.out.b.selectedCourseFilter = ret.out.a.selectedCourseFilter

C26_Witness ==
  /\ ret.fn = "updateStudentTwice"
  /\ arg.id \in IdsOf(state.students)
  /\ ret.out.a # state
  /\ ret.out.b # ret.out.a

\* C25: the records of the store change in addStudent, updateStudent and
\* deleteStudent only: a record comes in by addStudent alone, is replaced by
\* updateStudent alone and goes by deleteStudent alone
C25_RecordsChangeThroughHelpersOnly ==
  [][state'.students # state.students =>
       \/ /\ last'.op = "addStudent"
          /\ Len(state'.students) = Len(state.students) + 1
          /\ SubSeq(state'.students, 1, Len(state.students)) = state.students
       \/ /\ last'.op = "updateStudent"
          /\ Len(state'.students) = Len(state.students)
          /\ \A i \in 1..Len(state.students) :
               state'.students[i].id = state.students[i].id
       \/ /\ last'.op = "deleteStudent"
          /\ IsSubSeq(state'.students, state.students)
          /\ Len(state'.students) < Len(state.students)]_vars

\* C27: the store gets a setSearchTerm only for a debounced term that is new:
\* after the first run, the effect of SearchAndFilter dispatches only when the
\* debounced term differs from the one it dispatched last
C27_OneDispatchPerQuiescence ==
  [][(sync'.n = sync.n + 1 /\ sync.deps # << >>) =>
       sync.deps[1] # debouncedValue]_searchAll

\* C31: within one remote validation the microtask step comes after the start
\* and before the timer step, and the verdict comes with the timer step only;
\* while the microtask of a validation is waiting, nothing else runs: no
\* timer of another validation, no handler
C31_MicrotaskBeforeTimer ==
  [][/\ (\E i \in DOMAIN remote : remote[i].pc = "microtask") =>
          /\ sub'.ev = "microtask"
          /\ Len(remote') = Len(remote)
          /\ sub'.settled = sub.settled
     /\ Len(remote') > Len(remote) => remote'[Len(remote')].pc = "microtask"
     /\ Len(remote') < Len(remote) =>
          /\ remote[1].pc = "timer"
          /\ sub'.ev \in {"committed", "rejected"}
     /\ sub'.settled # sub.settled => Len(remote') < Len(remote)
     /\ \A i \in DOMAIN remote :
          (i \in DOMAIN remote' /\ remote[i].pc = "timer") => remote'[i].pc = "timer"
    ]_formAll

\* C31 witness: a validation was started while the timer of an earlier one
\* was waiting, and its microtask has run
C31_Witness ==
  /\ Len(remote) = 2
  /\ remote[1].pc = "timer"
  /\ remote[2].pc = "timer"
  /\ sub.ev = "microtask"

C37_EditNeverCreates ==
  [][(isEditing /\ sub'.n = sub.n + 1) =>
       /\ issued' = issued
       /\ Len(state'.students) = Len(state.students)
       /\ \A i \in DOMAIN state.students :
            state'.students[i].id = state.students[i].id
       /\ sub'.ev = "committed" =>
            /\ last'.op = "updateStudent"
            /\ last'.id = editingStudent[1].id
       /\ sub'.ev # "committed" => state' = state
    ]_formAll

\* C37 witness: an edit submission has updated one of two records
C37_Witness ==
  /\ sub.ev = "committed"
  /\ last.op = "updateStudent"
  /\ last.hit
  /\ Len(state.students) = 2

\* C38: after any sequence of create, edit and delete submissions every record
\* of the store is structurally valid: its name is trimmed and 2 to 50
\* characters long, its email is trimmed and matches the email pattern, its
\* courseId is a non-zero integer
C38_StoredRecordsAreValid ==
  \A i \in DOMAIN state.students :
    LET r == state.students[i]
    IN /\ r.name = trim(r.name)
       /\ Len(r.name) >= 2
       /\ Len(r.name) <= 50
       /\ r.email = trim(r.email)
       /\ emailRegexTest(r.email)
       /\ r.courseId # NaN
       /\ r.courseId # 0

\* C38 witness: two records with different emails were created from input
\* that had to be trimmed, and one of them has been edited
C38_Witness ==
  /\ Len(state.students) = 2
  /\ state.students[1].email # state.students[2].email
  /\ state.students[1].name = <<"B", "o">>
  /\ sub.ev = "committed"
  /\ last.op = "updateStudent"
  /\ last.hit

\* C36: in every state of useCourses data and error are never both set,
\* loading implies no error, not loading implies exactly one of data and
\* error; and while Dashboard is mounted at most one fetchCourses call is in
\* flight
C36_OneFetchInFlight ==
  /\ ~(apiState.data # None /\ apiState.error # None)
  /\ apiState.loading => apiState.error = None
  /\ ~apiState.loading => (apiState.data # None) # (apiState.error # None)
  /\ fetches.mounted => Len(fetches.pending) <= 1

\* C36 as amended: the same three implications, and the mounted Dashboard has
\* at most one call of its own in flight; calls of earlier Dashboard
\* instances may still be in flight beside it
C36_OneOwnFetchInFlight ==
  /\ ~(apiState.data # None /\ apiState.error # None)
  /\ apiState.loading => apiState.error = None
  /\ ~apiState.loading => (apiState.data # None) # (apiState.error # None)
  /\ fetches.mounted =>
       Cardinality({i \in DOMAIN fetches.pending :
                      fetches.pending[i] > fetches.base}) <= 1

\* C36 witness: the call of an earlier Dashboard is in flight beside the call
\* the mounted one has made
C36_Witness ==
  /\ fetches.mounted
  /\ apiState.loading
  /\ Len(fetches.pending) = 2
  /\ fetches.pending[1] <= fetches.base
  /\ fetches.pending[2] > fetches.base

\* C33: after clearSearch the searchTerm of the store is '' and stays '' until
\* the user types again; the debounced term is not written back
C33_ClearedStaysCleared ==
  sync.cleared => state.searchTerm = Str_empty

TypeOK ==
  /\ now \in Times
  /\ state.searchTerm \in Terms \cup DValues
  /\ state.selectedCourseFilter \in Filters
  /\ Len(state.students) <= MaxIds + 1
  /\ Len(issued) <= MaxIds
====
